---- MODULE Spec2Model ----
(***************************************************************************)
(* Windowed fetch of generation data and its persistence:                  *)
(*   ocf_pipeline/elexon_api.py   fetch_generation_data                    *)
(*   ocf_pipeline/storage.py      initialize_db, store_records             *)
(*   ocf_pipeline/elexon_data.py  fetch_year                               *)
(*   main.py                      fetch_year_command, fetch_range_command  *)
(*   streamlit_app.py             fetch_date_range_with_progress,          *)
(*                                fetch_large_date_range,                  *)
(*                                fetch_year_with_progress                 *)
(*                                                                         *)
(* A calendar date is its proleptic Gregorian ordinal (date.toordinal());  *)
(* a datetime is a record [day, tod] with tod the hour of the day.  The    *)
(* SQLite table is a bag of rows; a connection holds its own working copy  *)
(* of the table (the committed rows plus what its open transaction wrote). *)
(***************************************************************************)
EXTENDS Integers, Sequences, FiniteSets, Bags, TLC

\* ------------------------------------------------------------------ bounds

\* Range jobs end from one day before RangeBase to this many days after it.
MaxSpanDays == 14
\* Range jobs start at most this many days after RangeBase.
MaxStartOffset == 0
\* The remote answers with at most this many records per request.
MaxBatchLen == 2
\* Direct calls of fetch_generation_data end at most this many days after RangeBase.
MaxCallDays == 8

\* ------------------------------------------------------ calendar, datetimes

MAX_WINDOW_DAYS == 6

Years == {2023, 2024}

\* datetime(year, 1, 1).toordinal()
Jan1(year) ==
    365 * (year - 1) + ((year - 1) \div 4) - ((year - 1) \div 100)
        + ((year - 1) \div 400) + 1

\* datetime(year, 12, 31).toordinal()
Dec31(year) == Jan1(year + 1) - 1

RangeBase == Jan1(2023)

TimesOfDay == {0, 23}

\* datetime.combine(d, datetime.min.time()), strptime(s, "%Y-%m-%d"), datetime(y, m, d)
Midnight(d) == [day |-> d, tod |-> 0]

\* (end - start).days : a timedelta is normalised, its days are the floor
TimedeltaDays(e, s) == (e.day - s.day) - (IF e.tod < s.tod THEN 1 ELSE 0)

\* dt.strftime("%Y-%m-%d") : the calendar date, the time of day dropped
StrftimeDate(dt) == dt.day

Min(a, b) == IF a <= b THEN a ELSE b

\* ------------------------------------------------------------------ records

PsrTypes == {"Solar", "Wind Onshore"}
StartTimes == {"2023-07-21T04:30:00Z"}
\* The non-key columns of one published reading: two publications of a reading
\* differ in quantity and in publishTime.
Readings == {[quantity |-> 640, publishTime |-> "2023-07-21T06:58:08Z"],
             [quantity |-> 12, publishTime |-> "2023-07-22T06:58:08Z"]}

\* The readings the remote has published per technology: "Wind Onshore" was
\* published twice (a revision), "Solar" once.
ReadingsOf(p) ==
    IF p = "Wind Onshore" THEN Readings
    ELSE {v \in Readings : v.quantity = 640}

\* One element of the payload's data array.  complete = FALSE is an element
\* that lacks one of the keys the INSERT statement names (here quantity).
Records ==
    {[psrType |-> x.psr, startTime |-> s, quantity |-> x.reading.quantity,
      publishTime |-> x.reading.publishTime, complete |-> TRUE] :
        s \in StartTimes,
        x \in {y \in [psr : PsrTypes, reading : Readings] :
                   y.reading \in ReadingsOf(y.psr)}}
    \cup
    {[psrType |-> "Solar", startTime |-> s, quantity |-> 0,
      publishTime |-> "2023-07-21T06:58:08Z", complete |-> FALSE] :
        s \in StartTimes}

Batches == UNION {[1..n -> Records] : n \in 0..MaxBatchLen}

\* The row INSERT binds from a record (the informational columns business_type,
\* settlement_date and settlement_period are bound like publish_time).
RowOf(rec) ==
    [psr_type |-> rec.psrType, start_time |-> rec.startTime,
     quantity |-> rec.quantity, publish_time |-> rec.publishTime]

\* PRIMARY KEY (psr_type, start_time)
SameKey(row, rec) ==
    row.psr_type = rec.psrType /\ row.start_time = rec.startTime

\* ------------------------------------------------------------------- store

\* A faulty variant of InsertOrReplace: a plain INSERT into a table without the key.
InsertPlain(rows, rec) == rows (+) SetToBag({RowOf(rec)})

\* A faulty variant of InsertOrReplace: INSERT OR IGNORE keeps the stored row.
InsertOrIgnore(rows, rec) ==
    IF \E r \in BagToSet(rows) : SameKey(r, rec)
    THEN rows
    ELSE rows (+) SetToBag({RowOf(rec)})

\* INSERT OR REPLACE: the rows that conflict on the primary key are deleted,
\* then the new row is inserted.
InsertOrReplace(rows, rec) ==
    LET kept == {r \in BagToSet(rows) : ~SameKey(r, rec)}
    IN  [r \in kept |-> rows[r]] (+) SetToBag({RowOf(rec)})

\* conn.executemany: the statement runs once per record, in order, inside the
\* transaction the connection opens implicitly; binding a record that lacks a
\* named parameter raises, and what ran before stays in the open transaction.
RECURSIVE ExecuteMany(_, _, _)
ExecuteMany(rows, recs, i) ==
    IF i > Len(recs) THEN [rows |-> rows, ok |-> TRUE]
    ELSE IF ~recs[i].complete THEN [rows |-> rows, ok |-> FALSE]
    ELSE ExecuteMany(InsertOrReplace(rows, recs[i]), recs, i + 1)

\* conn.commit(): the connection's working copy becomes the committed table.
Commit(working, committed) == working

\* store_records(conn, records): executemany, then commit; an exception of
\* executemany leaves commit unreached.
StoreRecords(c, committed, recs) ==
    LET x == ExecuteMany(c.rows, recs, 1)
    IN  IF x.ok
        THEN [conn |-> [c EXCEPT !.rows = x.rows],
              db |-> Commit(x.rows, committed), ok |-> TRUE]
        ELSE [conn |-> [c EXCEPT !.rows = x.rows], db |-> committed, ok |-> FALSE]

\* initialize_db(): sqlite3.connect; the connection sees the committed table.
InitializeDb(committed) == [open |-> TRUE, rows |-> committed]

\* conn.close(): an open transaction is rolled back.
Closed == [open |-> FALSE, rows |-> EmptyBag]

\* ------------------------------------------------------------ fetch client

\* What the remote service does with one request: the transport fails, the
\* service answers with a non-success status, the payload lacks the data field,
\* or the payload carries a data array.
Failures == {"TransportFailure", "RemoteError", "DecodeFailure"}

Responses ==
    {[kind |-> k, data |-> << >>] : k \in Failures}
    \cup {[kind |-> "ok", data |-> b] : b \in Batches}

\* No request was sent, the remote has answered nothing.
NoResponse == [kind |-> "none", data |-> << >>]

\* A year job runs 53 requests; the remote answers each of them with at most
\* MaxYearBatchLen records.
MaxYearBatchLen == 1

YearResponses == {r \in Responses : Len(r.data) <= MaxYearBatchLen}

\* A faulty variant of WindowTooLarge: the limit off by one.
WindowTooLargeOffByOne(s, e) == TimedeltaDays(e, s) > MAX_WINDOW_DAYS + 1

\* if (end - start).days > 6: raise ValueError
WindowTooLarge(s, e) == TimedeltaDays(e, s) > MAX_WINDOW_DAYS

\* A faulty variant of FetchGenerationData: a failed request is sent once more.
FetchGenerationDataRetry(s, e, resp) ==
    IF WindowTooLarge(s, e)
    THEN [outcome |-> "WindowTooLarge", sent |-> FALSE, requests |-> 0,
          from |-> 0, to |-> 0, response |-> NoResponse, data |-> << >>]
    ELSE [outcome |-> resp.kind, sent |-> TRUE,
          requests |-> IF resp.kind = "ok" THEN 1 ELSE 2,
          from |-> StrftimeDate(s), to |-> StrftimeDate(e), response |-> resp,
          data |-> resp.data]

\* A faulty variant of FetchGenerationData: the last element of the payload's
\* data array is not returned.
FetchGenerationDataDropsLast(s, e, resp) ==
    IF WindowTooLarge(s, e)
    THEN [outcome |-> "WindowTooLarge", sent |-> FALSE, requests |-> 0,
          from |-> 0, to |-> 0, response |-> NoResponse, data |-> << >>]
    ELSE [outcome |-> resp.kind, sent |-> TRUE, requests |-> 1,
          from |-> StrftimeDate(s), to |-> StrftimeDate(e), response |-> resp,
          data |-> IF Len(resp.data) > 1
                   THEN SubSeq(resp.data, 1, Len(resp.data) - 1)
                   ELSE resp.data]

\* A faulty variant of FetchGenerationData: a payload without the data field
\* is read as an empty list (.get("data", [])) and a non-success status is
\* not raised.
FetchGenerationDataLenient(s, e, resp) ==
    IF WindowTooLarge(s, e)
    THEN [outcome |-> "WindowTooLarge", sent |-> FALSE, requests |-> 0,
          from |-> 0, to |-> 0, response |-> NoResponse, data |-> << >>]
    ELSE [outcome |-> IF resp.kind \in {"RemoteError", "DecodeFailure"}
                      THEN "ok" ELSE resp.kind,
          sent |-> TRUE, requests |-> 1,
          from |-> StrftimeDate(s), to |-> StrftimeDate(e), response |-> resp,
          data |-> resp.data]

\* fetch_generation_data(start, end): the window check, then one GET with
\* from/to as calendar dates; requests.get, raise_for_status and ["data"] each
\* raise on their failure, nothing is caught or retried.  requests: how many
\* times requests.get ran.
FetchGenerationData(s, e, resp) ==
    IF WindowTooLarge(s, e)
    THEN [outcome |-> "WindowTooLarge", sent |-> FALSE, requests |-> 0,
          from |-> 0, to |-> 0, response |-> NoResponse, data |-> << >>]
    ELSE [outcome |-> resp.kind, sent |-> TRUE, requests |-> 1,
          from |-> StrftimeDate(s), to |-> StrftimeDate(e), response |-> resp,
          data |-> resp.data]

\* ------------------------------------------------------------------- query

\* An optional argument: None, or the value given.
None == << >>
Some(x) == <<x>>

\* A TEXT value of a date column is the sequence of its character codes.
Digits2(n) == <<48 + (n \div 10), 48 + (n % 10)>>
Digits4(n) == Digits2(n \div 100) \o Digits2(n % 100)

\* "YYYY-MM-DD": date.strftime('%Y-%m-%d'), the --start/--end arguments
IsoDate(y, m, d) == Digits4(y) \o <<45>> \o Digits2(m) \o <<45>> \o Digits2(d)

\* "YYYY-MM-DDThh:mm:00Z": the startTime of the remote's records
IsoTimestamp(y, m, d, h, mi) ==
    IsoDate(y, m, d) \o <<84>> \o Digits2(h) \o <<58>> \o Digits2(mi)
        \o <<58, 48, 48, 90>>

\* SQLite compares TEXT with the BINARY collation: memcmp over the common
\* length, then the shorter one first.  -1, 0, 1 as a < b, a = b, a > b.
RECURSIVE TextCompare(_, _, _)
TextCompare(a, b, i) ==
    IF i > Len(a) THEN (IF i > Len(b) THEN 0 ELSE -1)
    ELSE IF i > Len(b) THEN 1
    ELSE IF a[i] < b[i] THEN -1
    ELSE IF a[i] > b[i] THEN 1
    ELSE TextCompare(a, b, i + 1)

\* parse_dates=["start_time"]: the datetime the text denotes, as
\* <<year, month, day, hour, minute, second>>.
Num2(t, i) == (t[i] - 48) * 10 + (t[i + 1] - 48)
ParseDates(t) ==
    <<Num2(t, 1) * 100 + Num2(t, 3), Num2(t, 6), Num2(t, 9), Num2(t, 12),
      Num2(t, 15), Num2(t, 18)>>

\* A faulty variant of StartClause: the lower bound exclusive.
StartClauseExclusive(row, s) == TextCompare(row.start_time, s, 1) > 0

\* "start_time >= ?"
StartClause(row, s) == TextCompare(row.start_time, s, 1) >= 0

\* A faulty variant of EndClause: the column is cut to the bound's length
\* before it is compared, so a date bound takes in its whole day.
EndClauseWholeDay(row, e) ==
    LET n == Min(Len(row.start_time), Len(e))
    IN  TextCompare(SubSeq(row.start_time, 1, n), e, 1) <= 0

\* "start_time <= ?"
EndClause(row, e) == TextCompare(row.start_time, e, 1) <= 0

\* "psr_type = ?"
PsrClause(row, p) == row.psr_type = p

\* if start: / if end: / if psr_type: -- None and the empty string add no clause
TextGiven(o) == o # None /\ Len(o[1]) > 0
PsrGiven(o) == o # None /\ o[1] # ""

\* A faulty variant of Ordered: no ORDER BY, the rows in any order.
Unordered(f) == TRUE

\* ORDER BY start_time: ascending in the column's text; the order of rows with
\* one start_time is not fixed.
Ordered(f) ==
    \A i, j \in DOMAIN f :
        i < j => TextCompare(f[i].start_time, f[j].start_time, 1) <= 0

\* SELECT start_time, psr_type, quantity, start_time parsed
Projection(row) ==
    [start_time |-> ParseDates(row.start_time), psr_type |-> row.psr_type,
     quantity |-> row.quantity]

\* load_dataframe(conn, start, end, psr_type) over the rows the connection
\* sees: the frames it can return.
LoadDataframe(rows, s, e, p) ==
    LET selected ==
            {r \in BagToSet(rows) :
                /\ TextGiven(s) => StartClause(r, s[1])
                /\ TextGiven(e) => EndClause(r, e[1])
                /\ PsrGiven(p) => PsrClause(r, p[1])}
        n == Cardinality(selected)
        orders == {f \in [1..n -> selected] :
                      /\ \A i, j \in 1..n : i # j => f[i] # f[j]
                      /\ Ordered(f)}
    IN  {[i \in 1..n |-> Projection(f[i])] : f \in orders}

NoArgs == [start |-> None, end |-> None, psr_type |-> None]

\* ------------------------------------------------------------------- state

VARIABLES
    db,           \* the committed rows of table generation
    conn,         \* the job's connection: [open, rows]
    pc,           \* "idle", "loop", "advance", "single", "done", "called"
    path,         \* which job runs
    start, end,   \* the job's span (dates)
    current,      \* the chunk loop's current
    data,         \* what the fetch of the current chunk returned
    windows,      \* the windows the job has called the fetch client with
    result,       \* what the job reports: [ok, msg]
    fetchFailed,  \* some fetch of the job raised
    storeFailed,  \* some store_records of the job raised
    lastCall,     \* the current call of fetch_generation_data
    lastStore,    \* what store_records did for the current chunk
    slept,        \* the loop has slept since its last fetch
    args,         \* the arguments of the current call of load_dataframe
    df,           \* the rows that call returned, in their order
    remote,       \* what the remote has answered, per window start
    runs,         \* how many times the job has been run to its end
    firstDb,      \* the committed rows at the end of the job's first run
    total_records, \* the dashboard job's count of imported records
    before,       \* the committed rows when the job began
    returned,     \* the keys of the records the job's successful chunks returned
    twin          \* the dashboard's year import run beside the CLI's

vars == <<db, conn, pc, path, start, end, current, data, windows, result,
          fetchFailed, storeFailed, lastCall, lastStore, slept, args, df,
          remote, runs, firstDb, total_records, before, returned, twin>>

\* The variables a loop body leaves to the job that runs it.
ledger == <<remote, total_records, before, returned, twin>>

\* The variables no other step of a job touches.
outside == <<args, df, runs, firstDb, ledger>>

\* No year import runs beside the job.
NoTwin == [pc |-> "idle"]

\* The remote has not answered yet.
NoRemote == [d \in {} |-> << >>]

NoResult == [ok |-> FALSE, msg |-> "none"]

NoCall ==
    [start |-> Midnight(0), end |-> Midnight(0), outcome |-> "none",
     sent |-> FALSE, requests |-> 0, from |-> 0, to |-> 0,
     response |-> NoResponse]

CallOf(s, e, f) ==
    [start |-> s, end |-> e, outcome |-> f.outcome, sent |-> f.sent,
     requests |-> f.requests, from |-> f.from, to |-> f.to,
     response |-> f.response]

\* No job has run, nothing is loaded.
AtRest ==
    /\ conn = Closed
    /\ pc = "idle"
    /\ path = "none"
    /\ start = 0
    /\ end = 0
    /\ current = 0
    /\ data = << >>
    /\ windows = << >>
    /\ result = NoResult
    /\ fetchFailed = FALSE
    /\ storeFailed = FALSE
    /\ lastCall = NoCall
    /\ lastStore = "none"
    /\ slept = FALSE
    /\ args = NoArgs
    /\ df = << >>
    /\ runs = 0
    /\ firstDb = EmptyBag
    /\ total_records = 0
    /\ before = EmptyBag
    /\ returned = {}
    /\ twin = NoTwin

Init ==
    /\ AtRest
    /\ db = EmptyBag
    /\ remote = NoRemote

\* ------------------------------------------------------------ chunk loop

\* A faulty variant of ChunkEnd: windows of eight calendar days.
ChunkEndSevenDays(cur, e) == Min(cur + MAX_WINDOW_DAYS + 1, e)

\* chunk_end = min(current + timedelta(days=6), end)
ChunkEnd(cur, e) == Min(cur + MAX_WINDOW_DAYS, e)

\* A faulty variant of NextCurrent: the next window starts on the previous window's end.
NextCurrentOverlap(chunk_end) == chunk_end

\* current = chunk_end + timedelta(days=1)
NextCurrent(chunk_end) == chunk_end + 1

\* A job begins: the span, and the connection of the paths that open it first.
Begin(p, s, e, c, next) ==
    /\ pc = "idle"
    /\ pc' = next
    /\ path' = p
    /\ start' = s
    /\ end' = e
    /\ current' = s
    /\ conn' = c
    /\ data' = << >>
    /\ windows' = << >>
    /\ result' = NoResult
    /\ fetchFailed' = FALSE
    /\ storeFailed' = FALSE
    /\ lastCall' = NoCall
    /\ lastStore' = "none"
    /\ slept' = FALSE
    /\ UNCHANGED <<db, outside>>

\* The body of the while loop up to the end of its try: fetch the window and,
\* when the result is not empty, store it.  isolated: the body's try/except
\* catches what the fetch or the store raises and the loop goes on; without it
\* the exception leaves the loop and the function.
ChunkBody(isolated, resp) ==
    LET chunk_end == ChunkEnd(current, end)
        f == FetchGenerationData(Midnight(current), Midnight(chunk_end), resp)
        fetched == f.outcome = "ok"
        stores == fetched /\ f.data # << >>
        s == StoreRecords(conn, db, f.data)
        raised == ~fetched \/ (stores /\ ~s.ok)
    IN  /\ pc = "loop"
        /\ current <= end
        /\ windows' = Append(windows, <<current, chunk_end>>)
        /\ lastCall' = CallOf(Midnight(current), Midnight(chunk_end), f)
        /\ data' = f.data
        /\ conn' = IF stores THEN s.conn ELSE conn
        /\ db' = IF stores THEN s.db ELSE db
        /\ lastStore' = IF ~stores THEN "none"
                        ELSE IF s.ok THEN "committed" ELSE "failed"
        /\ fetchFailed' = (fetchFailed \/ ~fetched)
        /\ storeFailed' = (storeFailed \/ (stores /\ ~s.ok))
        /\ slept' = FALSE
        /\ IF raised /\ ~isolated
           THEN /\ pc' = "done"
                /\ result' = [ok |-> FALSE, msg |-> "error"]
           ELSE /\ pc' = "advance"
                /\ result' = result
        /\ UNCHANGED <<path, start, end, current, args, df, runs, firstDb>>

\* The end of the while body: current moves one day past the chunk's end;
\* sleeps: the body ends with time.sleep(0.2).  data is dead until the next
\* fetch assigns it.
Advance(sleeps) ==
    /\ pc = "advance"
    /\ pc' = "loop"
    /\ slept' = sleeps
    /\ current' = NextCurrent(ChunkEnd(current, end))
    /\ data' = << >>
    /\ lastCall' = NoCall
    /\ lastStore' = "none"
    /\ UNCHANGED <<db, conn, path, start, end, windows, result, fetchFailed,
                   storeFailed, outside>>

\* The while condition fails: conn.close() and the function's normal end.
LoopExit(msg) ==
    /\ pc = "loop"
    /\ current > end
    /\ pc' = "done"
    /\ conn' = Closed
    /\ result' = [ok |-> TRUE, msg |-> msg]
    /\ UNCHANGED <<db, path, start, end, current, data, windows, fetchFailed,
                   storeFailed, lastCall, lastStore, slept, outside>>

\* --------------------------------------------------------------- CLI jobs

RangeStarts == RangeBase..(RangeBase + MaxStartOffset)
RangeEnds == (RangeBase - 1)..(RangeBase + MaxSpanDays)

\* fetch_year_command(year) -> fetch_year(year): the connection, the span.
FetchYearBegin ==
    \E year \in Years :
        Begin("fetch_year", Jan1(year), Dec31(year), InitializeDb(db), "loop")

\* A faulty variant of FetchYearBody: the while body catches what the chunk
\* raises and the loop goes on.
FetchYearBodyIsolated ==
    /\ path = "fetch_year"
    /\ \E resp \in YearResponses : ChunkBody(TRUE, resp)
    /\ UNCHANGED ledger

\* fetch_year: the while body has no try; fetch_year_command's except prints
\* the error and exits 1.
FetchYearBody ==
    /\ path = "fetch_year"
    /\ \E resp \in YearResponses : ChunkBody(FALSE, resp)
    /\ UNCHANGED ledger

FetchYearAdvance ==
    /\ path = "fetch_year"
    /\ Advance(FALSE)

\* fetch_year returns; fetch_year_command prints its success line.
FetchYearExit ==
    /\ path = "fetch_year"
    /\ LoopExit("imported")

\* A range job begins: more than 6 days take the chunk loop (the connection is
\* opened), the others the single request.
RangeBegin(p, s, e) ==
    IF TimedeltaDays(Midnight(e), Midnight(s)) > MAX_WINDOW_DAYS
    THEN Begin(p, s, e, InitializeDb(db), "loop")
    ELSE Begin(p, s, e, Closed, "single")

\* fetch_range_command(start_date, end_date)
FetchRangeBegin ==
    \E s \in RangeStarts, e \in RangeEnds : RangeBegin("fetch_range", s, e)

\* fetch_range_command, the chunk loop: no try in the body, the function's
\* except clauses print the error and exit 1.
FetchRangeBody ==
    /\ path = "fetch_range"
    /\ \E resp \in Responses : ChunkBody(FALSE, resp)
    /\ UNCHANGED ledger

FetchRangeAdvance ==
    /\ path = "fetch_range"
    /\ Advance(FALSE)

\* fetch_range_command, the chunk loop ends: conn.close(), exit status 0.
FetchRangeExit ==
    /\ path = "fetch_range"
    /\ LoopExit("imported")

\* The single request of a range job: the fetch, then for a non-empty result
\* initialize_db, store_records, conn.close().  closes: the except clause
\* closes the connection (dashboard); emptyResult: what an empty result reports.
SingleRequest(resp, closes, emptyResult) ==
    LET f == FetchGenerationData(Midnight(start), Midnight(end), resp)
        fetched == f.outcome = "ok"
        stores == fetched /\ f.data # << >>
        s == StoreRecords(InitializeDb(db), db, f.data)
    IN  /\ pc = "single"
        /\ pc' = "done"
        /\ windows' = Append(windows, <<start, end>>)
        /\ lastCall' = CallOf(Midnight(start), Midnight(end), f)
        /\ data' = f.data
        /\ db' = IF stores THEN s.db ELSE db
        /\ conn' = IF stores /\ ~s.ok /\ ~closes THEN s.conn ELSE Closed
        /\ lastStore' = IF ~stores THEN "none"
                        ELSE IF s.ok THEN "committed" ELSE "failed"
        /\ fetchFailed' = ~fetched
        /\ storeFailed' = (stores /\ ~s.ok)
        /\ result' = IF ~fetched \/ (stores /\ ~s.ok)
                     THEN [ok |-> FALSE, msg |-> "error"]
                     ELSE IF stores THEN [ok |-> TRUE, msg |-> "imported"]
                     ELSE emptyResult
        /\ UNCHANGED <<path, start, end, current, slept, args, df, runs,
                       firstDb>>

\* fetch_range_command, the single request: an exception exits 1 with the
\* connection left open; an empty result prints a warning and exits 0.
FetchRangeSingle ==
    /\ path = "fetch_range"
    /\ \E resp \in Responses :
           SingleRequest(resp, FALSE, [ok |-> TRUE, msg |-> "no_data"])
    /\ UNCHANGED ledger

\* --------------------------------------------------------- dashboard jobs

\* fetch_year_with_progress(year)
DashYearBegin ==
    \E year \in Years :
        Begin("dash_year", Jan1(year), Dec31(year), InitializeDb(db), "loop")

\* fetch_year_with_progress: the while body's try/except reports the chunk's
\* error and the loop goes on.
DashYearBody ==
    /\ path = "dash_year"
    /\ \E resp \in YearResponses : ChunkBody(TRUE, resp)
    /\ UNCHANGED ledger

DashYearAdvance ==
    /\ path = "dash_year"
    /\ Advance(TRUE)

\* fetch_year_with_progress: conn.close(), return True.
DashYearExit ==
    /\ path = "dash_year"
    /\ LoopExit("imported")

\* The longest span main hands to fetch_date_range_with_progress.
MAX_DIRECT_DAYS == 7

\* fetch_date_range_with_progress(start_date, end_date): more than 6 days go
\* to fetch_large_date_range, the others to the single request.
FetchDateRangeRoute(s, e) ==
    IF TimedeltaDays(Midnight(e), Midnight(s)) > MAX_WINDOW_DAYS
    THEN "loop" ELSE "single"

\* A faulty variant of DashRoute: spans of at most 7 days take the single
\* request, without the check of fetch_date_range_with_progress.
DashRouteDirect(s, e) ==
    IF TimedeltaDays(Midnight(e), Midnight(s)) <= MAX_DIRECT_DAYS
    THEN "single" ELSE "loop"

\* main, "Import Range Data": spans of at most 7 days are handed to
\* fetch_date_range_with_progress, longer ones to fetch_large_date_range.
DashRoute(s, e) ==
    IF TimedeltaDays(Midnight(e), Midnight(s)) <= MAX_DIRECT_DAYS
    THEN FetchDateRangeRoute(s, e) ELSE "loop"

DashRangeBegin ==
    \E s \in RangeStarts, e \in RangeEnds :
        IF DashRoute(s, e) = "loop"
        THEN Begin("dash_range", s, e, InitializeDb(db), "loop")
        ELSE Begin("dash_range", s, e, Closed, "single")

\* fetch_large_date_range: the while body's try/except warns and goes on.
DashLargeBody ==
    /\ path = "dash_range"
    /\ \E resp \in Responses : ChunkBody(TRUE, resp)
    /\ UNCHANGED ledger

DashLargeAdvance ==
    /\ path = "dash_range"
    /\ Advance(TRUE)

\* fetch_large_date_range: conn.close(), return True.
DashLargeExit ==
    /\ path = "dash_range"
    /\ LoopExit("imported")

\* fetch_date_range_with_progress, the single request: an exception closes the
\* connection and returns False; an empty result returns False too.
DashRangeSingle ==
    /\ path = "dash_range"
    /\ \E resp \in Responses :
           SingleRequest(resp, TRUE, [ok |-> FALSE, msg |-> "no_data"])
    /\ UNCHANGED ledger

\* ------------------------------------------------------------ other steps

\* The job's own variables are dead.
RestJob ==
    /\ pc' = "idle"
    /\ path' = "none"
    /\ conn' = Closed
    /\ start' = 0
    /\ end' = 0
    /\ current' = 0
    /\ data' = << >>
    /\ windows' = << >>
    /\ result' = NoResult
    /\ fetchFailed' = FALSE
    /\ storeFailed' = FALSE
    /\ lastCall' = NoCall
    /\ lastStore' = "none"
    /\ slept' = FALSE

\* Back to rest.
Rest ==
    /\ RestJob
    /\ UNCHANGED <<db, outside>>

\* The job is over: the CLI process has exited (a connection it left open is
\* gone, its transaction rolled back), the dashboard waits for the next click.
JobEnd ==
    /\ pc = "done"
    /\ Rest

CallTimes ==
    {[day |-> d, tod |-> t] : d \in RangeBase..(RangeBase + MaxCallDays),
                              t \in TimesOfDay}

\* A caller outside the jobs calls fetch_generation_data(start, end) with
\* datetimes of any time of day (as test_fetch_chunk does).
DirectFetch ==
    /\ pc = "idle"
    /\ pc' = "called"
    /\ \E s \in {t \in CallTimes : t.day \in RangeStarts}, e \in CallTimes,
          resp \in Responses :
           LET f == FetchGenerationData(s, e, resp)
           IN  /\ lastCall' = CallOf(s, e, f)
               /\ data' = f.data
    /\ UNCHANGED <<db, conn, path, start, end, current, windows, result,
                   fetchFailed, storeFailed, lastStore, slept, outside>>

\* The caller is done with what the call returned.
DirectReturn ==
    /\ pc = "called"
    /\ Rest

Next ==
    \/ FetchYearBegin
    \/ FetchYearBody
    \/ FetchYearAdvance
    \/ FetchYearExit
    \/ FetchRangeBegin
    \/ FetchRangeBody
    \/ FetchRangeAdvance
    \/ FetchRangeExit
    \/ FetchRangeSingle
    \/ DashYearBegin
    \/ DashYearBody
    \/ DashYearAdvance
    \/ DashYearExit
    \/ DashRangeBegin
    \/ DashLargeBody
    \/ DashLargeAdvance
    \/ DashLargeExit
    \/ DashRangeSingle
    \/ JobEnd
    \/ DirectFetch
    \/ DirectReturn

Spec == Init /\ [][Next]_vars

\* ------------------------------------------------------- store and query

\* A store_records call outside the jobs takes at most this many records.
MaxQueryBatchLen == 2

QueryStartTimes ==
    {IsoTimestamp(2023, 7, 21, 4, 30), IsoTimestamp(2023, 7, 21, 5, 0),
     IsoTimestamp(2023, 7, 22, 0, 0)}

\* Records of three settlement periods: "Wind Onshore" at 04:30 in two
\* publications, "Solar" at 04:30 too, "Wind Onshore" at 05:00, "Solar" at
\* midnight of the next day.
QueryRecords ==
    {[psrType |-> x[1], startTime |-> x[2], quantity |-> x[3],
      publishTime |-> "2023-07-22T06:58:08Z", complete |-> TRUE] :
        x \in {<<"Wind Onshore", IsoTimestamp(2023, 7, 21, 4, 30), 640>>,
               <<"Wind Onshore", IsoTimestamp(2023, 7, 21, 4, 30), 12>>,
               <<"Solar", IsoTimestamp(2023, 7, 21, 4, 30), 640>>,
               <<"Wind Onshore", IsoTimestamp(2023, 7, 21, 5, 0), 12>>,
               <<"Solar", IsoTimestamp(2023, 7, 22, 0, 0), 640>>}}

QueryBatches == UNION {[1..n -> QueryRecords] : n \in 0..MaxQueryBatchLen}

\* The filters of plot --start/--end/--psr-type and of the Data Explorer: a
\* date, a full timestamp, the empty string, or nothing.
QueryArgs ==
    [start : {None, Some(<< >>), Some(IsoDate(2023, 7, 21))}
                 \cup {Some(t) : t \in QueryStartTimes},
     end : {None, Some(<< >>), Some(IsoDate(2023, 7, 21)),
            Some(IsoDate(2023, 7, 22))}
               \cup {Some(t) : t \in QueryStartTimes},
     psr_type : {None, Some("")} \cup {Some(t) : t \in PsrTypes}]

\* store_records(conn, records) on a connection of its own, as
\* test_store_and_load calls it.
StoreBatch ==
    /\ pc = "idle"
    /\ \E batch \in QueryBatches :
           LET s == StoreRecords(InitializeDb(db), db, batch)
           IN  /\ conn' = s.conn
               /\ db' = s.db
               /\ data' = batch
               /\ lastStore' = IF s.ok THEN "committed" ELSE "failed"
    /\ pc' = "stored"
    /\ UNCHANGED <<path, start, end, current, windows, result, fetchFailed,
                   storeFailed, lastCall, slept, args, df, runs, firstDb,
                   ledger>>

\* df = load_dataframe(conn) on the connection that stored the batch.
LoadAfterStore ==
    /\ pc = "stored"
    /\ lastStore = "committed"
    /\ pc' = "loaded"
    /\ args' = NoArgs
    /\ df' \in LoadDataframe(conn.rows, None, None, None)
    /\ UNCHANGED <<db, conn, path, start, end, current, data, windows, result,
                   fetchFailed, storeFailed, lastCall, lastStore, slept, runs,
                   firstDb, ledger>>

\* plot_command / load_filtered_data: initialize_db, load_dataframe with the
\* filters, conn.close().
Load ==
    /\ pc = "idle"
    /\ pc' = "loaded"
    /\ \E a \in QueryArgs :
           /\ args' = a
           /\ df' \in LoadDataframe(InitializeDb(db).rows, a.start, a.end,
                                    a.psr_type)
    /\ UNCHANGED <<db, conn, path, start, end, current, data, windows, result,
                   fetchFailed, storeFailed, lastCall, lastStore, slept, runs,
                   firstDb, ledger>>

\* "start_time LIKE ?" with the pattern f"{year}%": the text begins with the
\* year's digits.
LikeYear(row, year) ==
    /\ Len(row.start_time) >= 4
    /\ SubSeq(row.start_time, 1, 4) = Digits4(year)

\* The least and the greatest of a non-empty set of texts, as MIN and MAX
\* compare them.
TextMin(ts) == CHOOSE t \in ts : \A u \in ts : TextCompare(t, u, 1) <= 0

TextMax(ts) == CHOOSE t \in ts : \A u \in ts : TextCompare(t, u, 1) >= 0

\* The calendar dates validate_import_data is called with after an import.
ValidateDates == {<<2023, 7, 21>>, <<2023, 7, 22>>}

\* validate_import_data(year, start_date, end_date): year, else both dates
\* (bound as strftime("%Y-%m-%d") texts), else no WHERE clause.
ValidateArgs ==
    [year : {None, Some(2023)},
     start : {None} \cup {Some(IsoDate(d[1], d[2], d[3])) : d \in ValidateDates},
     end : {None} \cup {Some(IsoDate(d[1], d[2], d[3])) : d \in ValidateDates},
     psr_type : {None}]

\* validate_import_data over the rows its connection sees: the counts of the
\* one row the SELECT returns, as the function reports them.
ValidateImportData(rows, a) ==
    LET selected ==
            IF a.year # None
            THEN {r \in BagToSet(rows) : LikeYear(r, a.year[1])}
            ELSE IF a.start # None /\ a.end # None
            THEN {r \in BagToSet(rows) :
                     StartClause(r, a.start[1]) /\ EndClause(r, a.end[1])}
            ELSE BagToSet(rows)
        count == BagCardinality([r \in selected |-> rows[r]])
        times == {r.start_time : r \in selected}
        techs == Cardinality({r.psr_type : r \in selected})
    IN  [record_count |-> count,
         date_range |-> IF count > 0
                        THEN Some(<<TextMin(times), TextMax(times)>>)
                        ELSE None,
         technology_count |-> techs,
         is_valid |-> (count > 0 /\ techs > 0)]

\* validate_import_data: initialize_db, the SELECT, conn.close().
Validate ==
    /\ pc = "idle"
    /\ pc' = "validated"
    /\ \E a \in ValidateArgs :
           /\ args' = a
           /\ df' = <<ValidateImportData(InitializeDb(db).rows, a)>>
    /\ UNCHANGED <<db, conn, path, start, end, current, data, windows, result,
                   fetchFailed, storeFailed, lastCall, lastStore, slept, runs,
                   firstDb, ledger>>

\* The caller is done with the frame and with the connection.
QueryReturn ==
    /\ pc \in {"stored", "loaded", "validated"}
    /\ pc' = "idle"
    /\ conn' = Closed
    /\ data' = << >>
    /\ lastStore' = "none"
    /\ args' = NoArgs
    /\ df' = << >>
    /\ UNCHANGED <<db, path, start, end, current, windows, result, fetchFailed,
                   storeFailed, lastCall, slept, runs, firstDb, ledger>>

QueryNext ==
    \/ StoreBatch
    \/ LoadAfterStore
    \/ Load
    \/ Validate
    \/ QueryReturn

QuerySpec == Init /\ [][QueryNext]_vars

\* ------------------------------------------------------------ properties

\* No row twice, and no two rows with one (psr_type, start_time).
KeysUnique(rows) ==
    \A r1 \in BagToSet(rows) :
        /\ CopiesIn(r1, rows) = 1
        /\ \A r2 \in BagToSet(rows) :
               (r1.psr_type = r2.psr_type /\ r1.start_time = r2.start_time)
                   => r1 = r2

\* The job's span takes the chunk loop (more than 6 days) and not the single request.
Looping == TimedeltaDays(Midnight(end), Midnight(start)) > MAX_WINDOW_DAYS

\* The job has run through all of its span: the loop's condition failed, or the
\* single request was made.
Finished == pc = "done" /\ (current > end \/ ~Looping)

\* The record of the batch that is the last one with the key of recs[i].
LastOfKey(recs, i) ==
    LET j == CHOOSE k \in DOMAIN recs :
                 /\ SameKey(RowOf(recs[k]), recs[i])
                 /\ \A m \in DOMAIN recs :
                        m > k => ~SameKey(RowOf(recs[m]), recs[i])
    IN  recs[j]

\* C1: whatever store_records calls the jobs have made, successful or failed,
\* neither the committed table nor the connection's working copy holds two
\* rows with the same (psrType, startTime).
C1_NoDuplicateKeys == KeysUnique(db) /\ KeysUnique(conn.rows)

\* C1 witness: a job in which one store_records failed and a later one
\* committed, with two rows in the table.
C1_Witness ==
    storeFailed /\ lastStore = "committed" /\ BagCardinality(db) = 2

\* C2: in a job that runs the chunk loop, a failed fetch does not end the job:
\* the windows fetched reach the end of the span, and a fetch that returned
\* records was followed by store_records.
C2_FailureDoesNotAbort ==
    /\ (pc = "done" /\ start <= end /\ Looping /\ fetchFailed)
           => (windows # << >> /\ windows[Len(windows)][2] = end)
    /\ (pc = "advance" /\ lastCall.outcome = "ok" /\ data # << >>)
           => lastStore # "none"

\* C3: store_records is atomic over the batch: every change of the committed
\* table is the whole of one successfully stored batch applied to the committed
\* table (nothing of a failed batch comes with it), and a failed store_records
\* changes nothing of it.
C3_BatchAtomic ==
    [][db' # db =>
          /\ lastStore' = "committed"
          /\ db' = ExecuteMany(db, data', 1).rows]_vars

\* C4: after store_records has committed a batch, each key of the batch is
\* stored once, as the row of the last record of the batch with that key, every
\* column taken from that record.
C4_ReplaceInFull ==
    lastStore = "committed" =>
        \A i \in DOMAIN data :
            /\ CopiesIn(RowOf(LastOfKey(data, i)), db) = 1
            /\ \A r \in BagToSet(db) :
                   SameKey(r, data[i]) => r = RowOf(LastOfKey(data, i))

\* C4 witness: a committed batch of two records with one key and different
\* readings: the second replaces the row the first inserted.
C4_Witness ==
    /\ lastStore = "committed"
    /\ Len(data) = 2
    /\ SameKey(RowOf(data[1]), data[2])
    /\ data[1].quantity # data[2].quantity
    /\ BagCardinality(db) = 2

\* C5: in the state store_records(data) has produced, a second
\* store_records(data) changes nothing: not the committed table, not the
\* working copy of the connection when the job has left it open, and it ends
\* as the first one did.
C5_UpsertIdempotent ==
    lastStore # "none" =>
        LET c == IF conn.open THEN conn ELSE InitializeDb(db)
            again == StoreRecords(c, db, data)
        IN  /\ again.db = db
            /\ conn.open => again.conn = conn
            /\ again.ok = (lastStore = "committed")

\* C5 witness: store_records has committed a batch of two different records on
\* a connection that an earlier failed batch had written to.
C5_Witness ==
    /\ pc = "advance"
    /\ storeFailed
    /\ lastStore = "committed"
    /\ Len(data) = 2
    /\ data[1] # data[2]

\* C6: for start <= end the windows of a job tile [start, end]: the first
\* starts at start, each next one starts the day after the one before ends, none
\* is longer than 7 calendar days, and the last one of a job that ran through
\* its span ends at end.
C6_WindowsTile ==
    start <= end =>
        /\ windows # << >> => windows[1][1] = start
        /\ \A i \in DOMAIN windows :
               /\ windows[i][1] <= windows[i][2]
               /\ windows[i][2] - windows[i][1] <= 6
               /\ windows[i][2] <= end
        /\ \A i \in 1..(Len(windows) - 1) :
               windows[i + 1][1] = windows[i][2] + 1
        /\ Finished => (windows # << >> /\ windows[Len(windows)][2] = end)

\* C6 witness: a range job over 15 days that has run through its three windows,
\* the last of a single day.
C6_Witness ==
    /\ Finished
    /\ path = "dash_range"
    /\ Len(windows) = 3
    /\ windows[3][1] = windows[3][2]

\* C7: a job over start <= end that ran through its span has fetched
\* ceil((end - start + 1) / 7) windows: one window [start, start] when
\* start = end, 53 windows for a calendar year.
C7_WindowCount ==
    (start <= end /\ Finished) =>
        /\ Len(windows) = (end - start + 1 + 6) \div 7
        /\ start = end => windows = << <<start, start>> >>
        /\ path \in {"fetch_year", "dash_year"} => Len(windows) = 53

\* C7 witness: a year job of 366 days that ran through its span.
C7_Witness ==
    /\ Finished
    /\ path = "fetch_year"
    /\ end - start + 1 = 366
    /\ Len(windows) = 53

C9_SentWindowWithinLimit ==
    lastCall.sent => lastCall.to - lastCall.from <= 6

\* C10: a job reports success only if no fetch and no store_records of it
\* failed.
C10_SuccessOnlyIfAllChunksOk ==
    (pc = "done" /\ result.ok) => ~(fetchFailed \/ storeFailed)

\* The failed windows a job's result names.  A job that ends on an exception
\* reports that exception ("Import failed: ...", "Error fetching data: ..."):
\* the failure of the window it was at.  A loop that runs to its end returns
\* (True, "Successfully imported N records"): the chunk errors went to the
\* status line as they happened and the result names none of them.
ReportedFailures(r, ws) ==
    IF r.msg = "error" /\ ws # << >> THEN {ws[Len(ws)]} ELSE {}

\* C11: the result of a finished job lists the windows whose chunk failed: it
\* names a failed window if and only if a fetch or a store_records of the job
\* failed.
C11_FailedWindowsListed ==
    pc = "done" =>
        ((fetchFailed \/ storeFailed) <=> ReportedFailures(result, windows) # {})

\* ------------------------------------------------- the same job run twice

\* The job run twice ends at most this many days after RangeBase.
MaxRerunDays == 7

\* The spans: 7 days (one request), 8 days and more (the chunk loop).
RerunEnds == (RangeBase + MAX_WINDOW_DAYS)..(RangeBase + MaxRerunDays)

RerunPaths == {"fetch_range", "dash_range"}

\* The remote's answers to a job run twice: a data array, or a failure.
RerunResponses == {r \in Responses : r.kind \in {"ok", "RemoteError"}}

\* The remote answers the request of a window as it answered it before.
Answers(d) == IF d \in DOMAIN remote THEN {remote[d]} ELSE RerunResponses

\* The command is given, and given again with the same dates.
RerunBegin ==
    /\ runs < 2
    /\ IF runs = 0
       THEN \E p \in RerunPaths, e \in RerunEnds : RangeBegin(p, RangeBase, e)
       ELSE RangeBegin(path, start, end)

RerunBody ==
    /\ pc = "loop"
    /\ \E resp \in Answers(current) :
           /\ ChunkBody(path = "dash_range", resp)
           /\ remote' = (current :> resp) @@ remote
    /\ UNCHANGED <<total_records, before, returned, twin>>

RerunAdvance ==
    /\ pc = "advance"
    /\ Advance(path = "dash_range")

RerunExit ==
    /\ pc = "loop"
    /\ LoopExit("imported")

RerunSingle ==
    /\ pc = "single"
    /\ \E resp \in Answers(start) :
           /\ SingleRequest(resp, path = "dash_range",
                            [ok |-> path # "dash_range", msg |-> "no_data"])
           /\ remote' = (start :> resp) @@ remote
    /\ UNCHANGED <<total_records, before, returned, twin>>

\* The run is over (the CLI process has exited, the dashboard has shown the
\* result); the dates stay as they were given.
RerunEnd ==
    /\ pc = "done"
    /\ pc' = "idle"
    /\ conn' = Closed
    /\ runs' = runs + 1
    /\ firstDb' = IF runs = 0 THEN db ELSE firstDb
    /\ UNCHANGED <<db, path, start, end, current, data, windows, result,
                   fetchFailed, storeFailed, lastCall, lastStore, slept, args,
                   df, ledger>>

RerunNext ==
    \/ RerunBegin
    \/ RerunBody
    \/ RerunAdvance
    \/ RerunExit
    \/ RerunSingle
    \/ RerunEnd

\* The table before the first run: empty, or one row of an earlier import.
EarlierStores ==
    {EmptyBag} \cup {SetToBag({RowOf(r)}) : r \in {x \in Records : x.complete}}

RerunInit ==
    /\ AtRest
    /\ db \in EarlierStores
    /\ remote = NoRemote

RerunSpec == RerunInit /\ [][RerunNext]_vars

\* ------------------------------------------------------------- scheduling

\* The dashboard's loops catch what a chunk raises, the CLI's do not; the
\* dashboard's loops sleep, its single request closes the connection in its
\* except clause and reports an empty result as a failure.
Isolated(p) == p \in {"dash_year", "dash_range"}

\* One answer of each outcome: a failure of each kind, an empty list, and a
\* list of one record (one of them a record store_records rejects).
TermResponses ==
    {[kind |-> k, data |-> << >>] : k \in Failures}
    \cup {[kind |-> "ok", data |-> b] : b \in {<< >>} \cup {<<r>> : r \in Records}}

TermBegin ==
    /\ pc = "idle"
    /\ \/ FetchYearBegin
       \/ FetchRangeBegin
       \/ DashYearBegin
       \/ DashRangeBegin

TermBody ==
    /\ pc = "loop"
    /\ \E resp \in TermResponses : ChunkBody(Isolated(path), resp)
    /\ UNCHANGED ledger

TermAdvance ==
    /\ pc = "advance"
    /\ Advance(Isolated(path))

TermExit ==
    /\ pc = "loop"
    /\ LoopExit("imported")

TermSingle ==
    /\ pc = "single"
    /\ \E resp \in TermResponses :
           SingleRequest(resp, Isolated(path),
                         [ok |-> ~Isolated(path), msg |-> "no_data"])
    /\ UNCHANGED ledger

TermEnd ==
    /\ pc = "done"
    /\ Rest

TermNext ==
    \/ TermBegin
    \/ TermBody
    \/ TermAdvance
    \/ TermExit
    \/ TermSingle
    \/ TermEnd

\* A job is sequential code: every step it has begun returns (the GET has
\* timeout=30, the store is one local transaction, the sleep is 0.2 s), and
\* the step after it is then taken.
TermSpec == Init /\ [][TermNext]_vars /\ WF_vars(TermNext)

\* ------------------------------------------------------ the job's frame

\* The primary key of the row a record is stored as, and of a row.
KeyOf(rec) == <<rec.psrType, rec.startTime>>

RowKey(row) == <<row.psr_type, row.start_time>>

\* The keys a chunk's fetch returned, each with whether store_records
\* committed the chunk's batch.
ReturnedKeys(recs, stored) == {<<KeyOf(recs[i]), stored>> : i \in DOMAIN recs}

\* fetch_range_command / fetch_date_range_with_progress over a span.
FrameBegin ==
    /\ pc = "idle"
    /\ \E p \in {"fetch_range", "dash_range"}, s \in RangeStarts,
          e \in RangeEnds : RangeBegin(p, s, e)

FrameBody ==
    /\ pc = "loop"
    /\ \E resp \in Responses : ChunkBody(Isolated(path), resp)
    /\ returned' = returned \cup ReturnedKeys(data', lastStore' = "committed")
    /\ UNCHANGED <<remote, total_records, before, twin>>

FrameAdvance ==
    /\ pc = "advance"
    /\ Advance(Isolated(path))

FrameExit ==
    /\ pc = "loop"
    /\ LoopExit("imported")

FrameSingle ==
    /\ pc = "single"
    /\ \E resp \in Responses :
           SingleRequest(resp, Isolated(path),
                         [ok |-> ~Isolated(path), msg |-> "no_data"])
    /\ returned' = returned \cup ReturnedKeys(data', lastStore' = "committed")
    /\ UNCHANGED <<remote, total_records, before, twin>>

\* The job is over; the next one begins with the table this one left.
FrameEnd ==
    /\ pc = "done"
    /\ RestJob
    /\ before' = db
    /\ returned' = {}
    /\ UNCHANGED <<db, args, df, runs, firstDb, remote, total_records, twin>>

FrameNext ==
    \/ FrameBegin
    \/ FrameBody
    \/ FrameAdvance
    \/ FrameExit
    \/ FrameSingle
    \/ FrameEnd

FrameSpec == Init /\ [][FrameNext]_vars

\* --------------------------------------------------- the two year imports

\* fetch_year_with_progress(year) up to its loop: the connection, the span.
TwinStart(s, committed) ==
    [pc |-> "loop", current |-> s, windows |-> << >>, db |-> committed,
     conn |-> InitializeDb(committed), raised |-> FALSE]

\* A faulty variant of TwinBody: chunk_end = current + timedelta(days=6),
\* without the min with end.
TwinBodyPastEnd(t, e, resp) ==
    LET chunk_end == t.current + MAX_WINDOW_DAYS
        f == FetchGenerationData(Midnight(t.current), Midnight(chunk_end), resp)
        fetched == f.outcome = "ok"
        stores == fetched /\ f.data # << >>
        s == StoreRecords(t.conn, t.db, f.data)
    IN  [t EXCEPT !.pc = "advance",
                  !.windows = Append(@, <<t.current, chunk_end>>),
                  !.conn = IF stores THEN s.conn ELSE @,
                  !.db = IF stores THEN s.db ELSE @,
                  !.raised = @ \/ ~fetched \/ (stores /\ ~s.ok)]

\* fetch_year_with_progress: the while body up to the end of its try/except,
\* applied to the dashboard import's own current, connection and table.
TwinBody(t, e, resp) ==
    LET chunk_end == ChunkEnd(t.current, e)
        f == FetchGenerationData(Midnight(t.current), Midnight(chunk_end), resp)
        fetched == f.outcome = "ok"
        stores == fetched /\ f.data # << >>
        s == StoreRecords(t.conn, t.db, f.data)
    IN  [t EXCEPT !.pc = "advance",
                  !.windows = Append(@, <<t.current, chunk_end>>),
                  !.conn = IF stores THEN s.conn ELSE @,
                  !.db = IF stores THEN s.db ELSE @,
                  !.raised = @ \/ ~fetched \/ (stores /\ ~s.ok)]

\* current = chunk_end + timedelta(days=1); time.sleep(0.2)
TwinAdvance(t, e) ==
    [t EXCEPT !.pc = "loop", !.current = NextCurrent(ChunkEnd(t.current, e))]

\* conn.close(); return True
TwinExit(t) == [t EXCEPT !.pc = "done", !.conn = Closed]

\* One turn of the while loop of fetch_year_with_progress: the body, the step
\* of current, and conn.close() with the return when the while test fails.
TwinIteration(t, e, resp) ==
    LET a == TwinAdvance(TwinBody(t, e, resp), e)
    IN  IF a.current > e THEN TwinExit(a) ELSE a

\* The dashboard import beside the CLI's: begun, from the same table, when the
\* CLI's import takes its first step.
TwinNow == IF twin = NoTwin THEN TwinStart(start, db) ELSE twin

\* fetch_year(year) begins; fetch_year_with_progress(year) begins beside it.
EquivBegin ==
    /\ pc = "idle"
    /\ FetchYearBegin

\* Both loops get the same answer of the remote: the CLI's runs its body, the
\* dashboard's its whole turn.
EquivBody ==
    /\ pc = "loop"
    /\ \E resp \in YearResponses :
           /\ ChunkBody(FALSE, resp)
           /\ twin' = TwinIteration(TwinNow, end, resp)
    /\ UNCHANGED <<remote, total_records, before, returned>>

EquivAdvance ==
    /\ pc = "advance"
    /\ Advance(FALSE)

EquivExit ==
    /\ pc = "loop"
    /\ LoopExit("imported")

\* Both imports are over; the next pair begins with the table the CLI's left.
EquivEnd ==
    /\ pc = "done"
    /\ RestJob
    /\ twin' = NoTwin
    /\ UNCHANGED <<db, args, df, runs, firstDb, remote, total_records, before,
                   returned>>

EquivNext ==
    \/ EquivBegin
    \/ EquivBody
    \/ EquivAdvance
    \/ EquivExit
    \/ EquivEnd

EquivSpec == Init /\ [][EquivNext]_vars

\* ------------------------------------------------ the dashboard's count

\* A faulty variant of TotalRecords: the records are counted when fetched.
TotalRecordsWhenFetched(total, stored, recs) == total + Len(recs)

\* total_records += len(data): the statement after store_records(conn, data),
\* inside "if data:"; skipped when store_records raised.
TotalRecords(total, stored, recs) ==
    IF stored THEN total + Len(recs) ELSE total

\* fetch_date_range_with_progress / fetch_large_date_range. The while body
\* of fetch_year_with_progress counts with the same three statements.
CountBegin ==
    \E s \in RangeStarts, e \in RangeEnds : RangeBegin("dash_range", s, e)

\* The while body of the dashboard loop, with its count.
CountBody ==
    /\ pc = "loop"
    /\ \E resp \in Responses : ChunkBody(TRUE, resp)
    /\ total_records' =
           TotalRecords(total_records, lastStore' = "committed", data')
    /\ UNCHANGED <<remote, before, returned, twin>>

CountAdvance ==
    /\ pc = "advance"
    /\ Advance(TRUE)

\* return True, f"Successfully imported {total_records:,} records"
CountExit ==
    /\ pc = "loop"
    /\ LoopExit("imported")

\* The single request reports len(data) once store_records has returned.
CountSingle ==
    /\ pc = "single"
    /\ \E resp \in Responses :
           SingleRequest(resp, TRUE, [ok |-> FALSE, msg |-> "no_data"])
    /\ total_records' = IF lastStore' = "committed" THEN Len(data') ELSE 0
    /\ UNCHANGED <<remote, before, returned, twin>>

\* The result is shown; the next import starts its count at 0.
CountEnd ==
    /\ pc = "done"
    /\ RestJob
    /\ total_records' = 0
    /\ UNCHANGED <<db, args, df, runs, firstDb, remote, before, returned,
                   twin>>

CountNext ==
    \/ CountBegin
    \/ CountBody
    \/ CountAdvance
    \/ CountExit
    \/ CountSingle
    \/ CountEnd

CountSpec == Init /\ [][CountNext]_vars

\* ------------------------------------------------------------ properties, 2

\* a is not later than b, for datetimes <<year, month, day, hour, minute, second>>.
DatetimeLeq(a, b) ==
    \E k \in 1..7 :
        /\ \A m \in 1..(k - 1) : a[m] = b[m]
        /\ k = 7 \/ a[k] < b[k]

\* The stored rows the filters of args ask for: start <= start_time <= end as
\* the store compares its TEXT column, psr_type the one given; a filter that is
\* None or empty asks for nothing.
Matching(rows, a) ==
    {r \in BagToSet(rows) :
        /\ (a.start = None \/ a.start[1] = << >>
               \/ TextCompare(a.start[1], r.start_time, 1) <= 0)
        /\ (a.end = None \/ a.end[1] = << >>
               \/ TextCompare(r.start_time, a.end[1], 1) <= 0)
        /\ (a.psr_type = None \/ a.psr_type[1] = ""
               \/ r.psr_type = a.psr_type[1])}

C13_StoreLoadRoundTrip ==
    (/\ pc = "loaded"
     /\ lastStore = "committed"
     /\ args = NoArgs
     /\ db = StoreRecords(InitializeDb(EmptyBag), EmptyBag, data).db)
        =>
        /\ Len(df) = Cardinality({<<data[i].psrType, data[i].startTime>> :
                                     i \in DOMAIN data})
        /\ \A i \in DOMAIN data :
               \E k \in DOMAIN df :
                   /\ df[k].psr_type = data[i].psrType
                   /\ IsoTimestamp(df[k].start_time[1], df[k].start_time[2],
                                   df[k].start_time[3], df[k].start_time[4],
                                   df[k].start_time[5]) = data[i].startTime
                   /\ df[k].start_time[6] = 0
                   /\ df[k].quantity = LastOfKey(data, i).quantity

\* C13 witness: one record stored into the empty table and loaded back as one
\* row with its quantity 640.
C13_Witness ==
    /\ pc = "loaded"
    /\ lastStore = "committed"
    /\ db = StoreRecords(InitializeDb(EmptyBag), EmptyBag, data).db
    /\ Len(data) = 1
    /\ Len(df) = 1
    /\ df[1].quantity = 640
    /\ df[1].psr_type = "Wind Onshore"

\* C14: a range job whose end is before its start fails as a whole before any
\* chunk runs: it calls the fetch client for no window, no request is sent, and
\* it does not report success.
C14_InvalidSpanFailsFirst ==
    (path \in {"fetch_range", "dash_range"} /\ end < start) =>
        /\ windows = << >>
        /\ ~lastCall.sent
        /\ pc = "done" => ~result.ok

\* C15: a fetch that succeeds with an empty list is not an error: a job in
\* which no fetch and no store_records failed and whose fetch returned no
\* record does not report failure.
C15_EmptyResultIsNoError ==
    (pc = "done" /\ ~fetchFailed /\ ~storeFailed /\ data = << >>) => result.ok

\* C16: when store_records fails for a chunk of a job that runs the chunk
\* loop, the job goes on to the end of its span and its result names the
\* failure.
C16_StoreFailureContinues ==
    (pc = "done" /\ storeFailed /\ start <= end /\ Looping) =>
        /\ windows[Len(windows)][2] = end
        /\ ReportedFailures(result, windows) # {}

\* C17: the chunks of a job run one after the other in increasing order of
\* their window start: a fetch begins only when no call of the fetch client and
\* no store_records of an earlier chunk is under way, it is one fetch, and its
\* window starts after the end of the window fetched before it.
C17_StrictlySequential ==
    [][Len(windows') > Len(windows) =>
          /\ pc \in {"loop", "single"}
          /\ lastCall = NoCall
          /\ lastStore = "none"
          /\ Len(windows') = Len(windows) + 1
          /\ windows # << >> =>
                 windows'[Len(windows')][1] > windows[Len(windows)][2]]_vars

\* C17 witness: the second chunk of a job has been fetched and stored after
\* the first, its window starting after the first one's end.
C17_Witness ==
    /\ pc = "advance"
    /\ Len(windows) = 2
    /\ windows[2][1] > windows[1][2]
    /\ lastStore = "committed"

\* C18: between two consecutive chunk fetches of a job the loop sleeps: a fetch
\* that is not the job's first begins only after the delay.
C18_DelayBetweenFetches ==
    [][(Len(windows') > Len(windows) /\ windows # << >>) => slept]_vars

\* C19: the same job run a second time, the remote answering each window as in
\* the first run, leaves the committed table as the first run left it.
C19_RerunIdempotent == runs = 2 => db = firstDb

\* C19 witness: a dashboard range job over two windows was run twice; in each
\* run a store_records failed and a later one committed, and rows are stored.
C19_Witness ==
    /\ runs = 2
    /\ path = "dash_range"
    /\ Len(windows) = 2
    /\ storeFailed
    /\ BagCardinality(db) = 2

\* C20: nothing is retried: a call of fetch_generation_data runs at most one
\* request, whatever its outcome, and a job calls it at most once per window.
C20_NoRetries ==
    /\ lastCall.requests <= 1
    /\ lastCall.sent <=> lastCall.requests = 1
    /\ \A i, j \in DOMAIN windows : i # j => windows[i] # windows[j]

\* C20 witness: the request of a job's second window failed after one request,
\* and the job goes on to its next window.
C20_Witness ==
    /\ pc = "advance"
    /\ Len(windows) = 2
    /\ lastCall.outcome \in Failures
    /\ lastCall.requests = 1
    /\ current + MAX_WINDOW_DAYS < end

\* C21: the count a dashboard job reports is the sum, over its chunks whose
\* fetch and store_records both succeeded, of the number of records fetched:
\* the count is 0 when the job begins, a chunk adds the length of its data when
\* its fetch returned and its store_records did not fail, any other chunk adds
\* nothing, and what the job reports at its end is the count so accumulated.
C21_TotalRecords ==
    [][/\ pc = "idle" => total_records = 0
       /\ (pc = "loop" /\ pc' = "advance") =>
              total_records' = total_records +
                  (IF lastCall'.outcome = "ok" /\ lastStore' # "failed"
                   THEN Len(data') ELSE 0)
       /\ (pc = "single" /\ pc' = "done") =>
              total_records' =
                  (IF lastCall'.outcome = "ok" /\ lastStore' # "failed"
                   THEN Len(data') ELSE 0)
       /\ (pc = "advance" \/ (pc = "loop" /\ pc' = "done")) =>
              total_records' = total_records]_vars

\* C21 witness: a dashboard job has ended after a chunk whose fetch failed, a
\* chunk whose store_records failed and chunks that were stored; it reports 2.
C21_Witness ==
    /\ pc = "done"
    /\ result.ok
    /\ fetchFailed
    /\ storeFailed
    /\ total_records = 2

\* C22: when the remote answers a request with a success status and a payload
\* that has a data array, fetch_generation_data returns that array: the same
\* elements in the same order, none added, dropped or altered.
C22_ReturnsPayloadData ==
    (lastCall.sent /\ lastCall.response.kind = "ok") =>
        /\ lastCall.outcome = "ok"
        /\ Len(data) = Len(lastCall.response.data)
        /\ \A i \in 1..Len(data) : data[i] = lastCall.response.data[i]

\* A loop chunk has fetched two different records.
C22_Witness ==
    /\ pc = "advance"
    /\ lastCall.outcome = "ok"
    /\ Len(data) = 2
    /\ data[1] # data[2]
    /\ data = lastCall.response.data

\* C23: a call of fetch_generation_data that the remote answers with a
\* non-success status or with a payload without the data field fails: it
\* returns no records, store_records is not called for its chunk, and neither
\* the committed table nor the connection's pending rows change.
C23_FailedFetchStoresNothing ==
    [][(/\ lastCall' # lastCall
        /\ lastCall'.response.kind \in {"RemoteError", "DecodeFailure"}) =>
           /\ lastCall'.outcome \in Failures
           /\ data' = << >>
           /\ lastStore' = "none"
           /\ db' = db
           /\ conn' = conn]_vars

\* A chunk of the dashboard's year import got a payload without data, after
\* an earlier chunk had stored rows.
C23_Witness ==
    /\ pc = "advance"
    /\ path = "dash_year"
    /\ lastCall.response.kind = "DecodeFailure"
    /\ lastCall.outcome = "DecodeFailure"
    /\ db # EmptyBag

\* C24: once a chunk of the CLI's fetch_year has raised, the job is over in
\* failure and the failed chunk's window is the last one it fetched; the
\* dashboard's fetch_year_with_progress, whatever its chunks raised, ends
\* successfully only after fetching every window up to the end of the year.
C24_YearPathsDifferOnFailure ==
    /\ (path = "fetch_year" /\ (fetchFailed \/ storeFailed)) =>
           /\ pc = "done"
           /\ ~result.ok
           /\ windows[Len(windows)][1] = current
           /\ lastCall.start = Midnight(current)
    /\ (path = "dash_year" /\ (fetchFailed \/ storeFailed)) =>
           pc \in {"advance", "loop", "done"}
    /\ (path = "dash_year" /\ pc = "done") =>
           /\ result.ok
           /\ windows[1][1] = start
           /\ windows[Len(windows)][2] = end
           /\ \A i \in 1..(Len(windows) - 1) :
                  windows[i + 1][1] = windows[i][2] + 1

\* The dashboard's year import has finished after a fetch and a store of its
\* chunks had raised.
C24_Witness ==
    /\ path = "dash_year"
    /\ pc = "done"
    /\ fetchFailed
    /\ storeFailed
    /\ windows[Len(windows)][2] = end

\* The CLI's year import has stopped at its second chunk.
C24_CliStopped ==
    /\ path = "fetch_year"
    /\ pc = "done"
    /\ fetchFailed
    /\ Len(windows) = 2
    /\ current < end

\* How many windows of at most 7 days the span from s to e is cut into.
ChunksOf(s, e) == IF e < s THEN 0 ELSE ((e - s) \div 7) + 1

\* The terminal states of a job, as its result and its chunks' outcomes tell
\* them apart.
Completed == pc = "done" /\ result.ok /\ ~fetchFailed /\ ~storeFailed

PartiallyCompleted == pc = "done" /\ result.ok /\ (fetchFailed \/ storeFailed)

Failed == pc = "done" /\ ~result.ok

\* C25: every job that has begun reaches its end; while it runs, each chunk
\* fetched is one more than before and at most the number of chunks of the
\* span, each turn of the loop moves current forward, and the end it reaches
\* is exactly one of Completed, PartiallyCompleted and Failed and is left only
\* for rest.
C25_JobsTerminate ==
    /\ (pc \in {"loop", "advance", "single"}) ~> (pc = "done")
    /\ [][/\ (pc = "loop" /\ windows' # windows) =>
                 /\ Len(windows') = Len(windows) + 1
                 /\ Len(windows') <= ChunksOf(start, end)
          /\ (pc = "advance") => (pc' = "loop" /\ current' > current)
          /\ (pc = "done") => (pc' = "idle")]_vars
    /\ [](pc = "done" =>
             \/ Completed /\ ~PartiallyCompleted /\ ~Failed
             \/ ~Completed /\ PartiallyCompleted /\ ~Failed
             \/ ~Completed /\ ~PartiallyCompleted /\ Failed)

\* The dashboard's year import has reached its end after all of its chunks,
\* some of which had raised.
C25_Witness ==
    /\ PartiallyCompleted
    /\ path = "dash_year"
    /\ Len(windows) = ChunksOf(start, end)
    /\ current > end

\* The rows of table whose key is not in keys.
RowsOutside(table, keys) ==
    LET kept == {r \in BagToSet(table) : RowKey(r) \notin keys}
    IN  [r \in kept |-> table[r]]

\* The keys the job's chunks returned: those of the chunks whose fetch and
\* store both succeeded, and those of every chunk whose fetch succeeded.
ReturnedBySucceeded == {x[1] : x \in {y \in returned : y[2]}}

ReturnedByFetched == {x[1] : x \in returned}

\* A chunk whose fetch fails or returns no records leaves the committed table
\* and the connection's pending rows as they were.
FrameOfChunk ==
    [][(pc \in {"loop", "single"} /\ windows' # windows /\ data' = << >>) =>
           (db' = db /\ conn.rows = conn'.rows)]_vars

\* C26: a chunk whose fetch fails or returns no records leaves the store
\* unchanged, and when the job is over the stored rows whose key no chunk
\* that succeeded (fetch and store) returned are the rows that were stored
\* under those keys before the job.
C26_Frame ==
    /\ FrameOfChunk
    /\ [](pc = "done" =>
             RowsOutside(db, ReturnedBySucceeded) =
                 RowsOutside(before, ReturnedBySucceeded))

\* The same frame with the keys of every chunk whose fetch succeeded, whether
\* or not its store did.
C26_FrameOfFetched ==
    /\ FrameOfChunk
    /\ [](pc = "done" =>
             RowsOutside(db, ReturnedByFetched) =
                 RowsOutside(before, ReturnedByFetched))

\* C27: in a job over a span with start <= end, on every path, no window
\* handed to fetch_generation_data spans more than 6 days and no call trips
\* the window check.
C27_JobsKeepTheWindowLimit ==
    (path # "none" /\ start <= end) =>
        /\ lastCall.outcome # "WindowTooLarge"
        /\ \A i \in DOMAIN windows :
               /\ ~WindowTooLarge(Midnight(windows[i][1]), Midnight(windows[i][2]))
               /\ windows[i][1] <= windows[i][2]

\* The dashboard import of a span of exactly 7 days, which main hands to
\* fetch_date_range_with_progress, has fetched its first chunk in the loop.
C27_Witness ==
    /\ path = "dash_range"
    /\ end - start = MAX_DIRECT_DAYS
    /\ pc = "advance"
    /\ Len(windows) = 1
    /\ lastCall.sent
    /\ lastCall.outcome = "ok"

\* C28: while no chunk of either year import has failed, fetch_year and
\* fetch_year_with_progress, begun on the same table and given the same
\* answers, have fetched the same windows in the same order and hold the
\* same rows, committed and pending; when fetch_year has succeeded, both are
\* over with the same committed table.
C28_YearImportsEquivalent ==
    /\ (twin # NoTwin /\ ~fetchFailed /\ ~storeFailed) =>
           /\ ~twin.raised
           /\ twin.windows = windows
           /\ twin.db = db
           /\ twin.pc = "loop" => twin.conn = conn
           /\ pc = "loop" => (twin.current = current /\
                                (twin.pc = "done") = (current > end))
    /\ (pc = "done" /\ result.ok) =>
           /\ twin.pc = "done"
           /\ twin.windows = windows
           /\ twin.db = db

\* Both imports of a year are over after all of its chunks, with rows stored.
C28_Witness ==
    /\ pc = "done"
    /\ result.ok
    /\ twin.pc = "done"
    /\ Len(twin.windows) = ChunksOf(start, end)
    /\ twin.windows = windows
    /\ twin.db = db
    /\ db # EmptyBag

\* The calendar date a text begins with, and the order of calendar dates.
DateOf(t) == <<Num2(t, 1) * 100 + Num2(t, 3), Num2(t, 6), Num2(t, 9)>>

DateBefore(a, b) ==
    \/ a[1] < b[1]
    \/ a[1] = b[1] /\ a[2] < b[2]
    \/ a[1] = b[1] /\ a[2] = b[2] /\ a[3] < b[3]

\* The text is a date without a time of day.
DateOnly(o) == o # None /\ Len(o[1]) = 10

\* C29: the stored start times being full timestamps, load_dataframe with a
\* date-only end bound returns no row of the bound's day or later, and with a
\* date-only start bound alone returns every row of the bound's day and of
\* later days; validate_import_data with both dates counts the rows from its
\* start date on up to, but not on, its end date.
C29_DateOnlyBounds ==
    /\ (pc = "loaded" /\ DateOnly(args.end)) =>
           \A i \in DOMAIN df :
               DateBefore(SubSeq(df[i].start_time, 1, 3), DateOf(args.end[1]))
    /\ (pc = "loaded" /\ DateOnly(args.start) /\ ~TextGiven(args.end)
                      /\ ~PsrGiven(args.psr_type)) =>
           \A r \in BagToSet(db) :
               ~DateBefore(DateOf(r.start_time), DateOf(args.start[1])) =>
                   \E i \in DOMAIN df :
                       /\ df[i].start_time = ParseDates(r.start_time)
                       /\ df[i].psr_type = r.psr_type
    /\ (pc = "validated" /\ args.year = None /\ args.start # None
                         /\ args.end # None) =>
           df[1].record_count =
               Cardinality({r \in BagToSet(db) :
                   /\ ~DateBefore(DateOf(r.start_time), DateOf(args.start[1]))
                   /\ DateBefore(DateOf(r.start_time), DateOf(args.end[1]))})

\* A query from 2023-07-21 to 2023-07-21, both as dates, returned nothing from
\* a table that holds a row of that day.
C29_Witness ==
    /\ pc = "loaded"
    /\ args.start = Some(IsoDate(2023, 7, 21))
    /\ args.end = Some(IsoDate(2023, 7, 21))
    /\ df = << >>
    /\ \E r \in BagToSet(db) : DateOf(r.start_time) = <<2023, 7, 21>>

\* validate_import_data for 2023-07-21 to 2023-07-22 counted the rows of the
\* 21st and left out the stored row of the 22nd.
C29_ValidateWitness ==
    /\ pc = "validated"
    /\ args.year = None
    /\ args.start = Some(IsoDate(2023, 7, 21))
    /\ args.end = Some(IsoDate(2023, 7, 22))
    /\ df[1].record_count = 2
    /\ \E r \in BagToSet(db) : DateOf(r.start_time) = <<2023, 7, 22>>

\* C30: when a job is over, however it ended, the connection it opened is
\* closed.
C30_ConnectionsClosed == pc = "done" => ~conn.open

\* The same for the dashboard's jobs alone.
C30_DashboardConnectionsClosed ==
    (pc = "done" /\ Isolated(path)) => ~conn.open

====
